---- MODULE Spec2Model ----
(***************************************************************************)
(* Model of charon's VirtualBox backend (charon/backends/virtualbox.py):   *)
(* the VirtualBoxState record, its serialise/deserialise pair, and the     *)
(* create / start / stop / destroy operations, each followed command by    *)
(* command against an abstract VBoxManage.                                 *)
(*                                                                         *)
(* One VirtualBoxState object is modelled.  mem is the object's fields,    *)
(* stored the mapping last handed to the state file by write(), vm the     *)
(* hypervisor's view of the machine.  pc is the position inside the        *)
(* running operation; log is the sequence of external commands, writes,    *)
(* known_hosts removals and warnings the running (or last) operation has   *)
(* made; the operation ends at pc = "done" and Returned hands control back *)
(* to the caller.  An exception leaves the object alive with its fields as *)
(* they are; a process death loses them and the next process reloads       *)
(* stored.                                                                 *)
(***************************************************************************)
EXTENDS Naturals, Sequences, FiniteSets, TLC

\* ------------------------------------------------------------------ bounds

\* Iterations a polling loop may wait (time.sleep(1)) before the model stops
\* following it.
MaxPolls == 1

\* ------------------------------------------------------------------ values

\* Python's None.
None == "None"

\* "charon-{uuid}-{name}": one deployment, one machine name.
VmId == "charon-u-m"

\* vm_dir + "/disk1.vdi"
DiskPath == "charon-u-m/disk1.vdi"

\* The pair _create_key_pair() returns.
PrivKey == "priv"
PubKey == "pub"

\* Addresses the guest may publish under /VirtualBox/GuestInfo/Net/1/V4/IP.
Addrs == {"a1", "a2"}

\* VMState values of 'VBoxManage showvminfo'.
VMStates == {"poweroff", "running", "stopping", "aborted"}

\* defn.base_image: the string "drv" (built with nix-build) or an image path.
BaseImages == {"drv", "img"}

\* Truth value of an optional string, as in 'if self._vm_id:'.
Truthy(v) == v # None /\ v # ""

\* ------------------------------------------------------------- state record

\* VirtualBoxState.__init__: every field unset.
EmptyState ==
    [vm_id |-> None, ipv4 |-> None, disk |-> None, disk_attached |-> FALSE,
     started |-> FALSE, client_private_key |-> None, client_public_key |-> None]

\* The nested mapping under 'virtualbox': optional keys only when truthy.
serialise_y(s) ==
    [k \in ({"diskAttached", "started"}
            \cup (IF Truthy(s.disk) THEN {"disk"} ELSE {})
            \cup (IF Truthy(s.client_private_key) THEN {"clientPrivateKey"} ELSE {})
            \cup (IF Truthy(s.client_public_key) THEN {"clientPublicKey"} ELSE {}))
       |-> CASE k = "disk" -> s.disk
             [] k = "clientPrivateKey" -> s.client_private_key
             [] k = "clientPublicKey" -> s.client_public_key
             [] k = "diskAttached" -> s.disk_attached
             [] OTHER -> s.started]

\* VirtualBoxState.serialise: the top-level mapping.
serialise(s) ==
    [k \in ({"virtualbox"}
            \cup (IF Truthy(s.vm_id) THEN {"vmId"} ELSE {})
            \cup (IF Truthy(s.ipv4) THEN {"privateIpv4"} ELSE {}))
       |-> CASE k = "vmId" -> s.vm_id
             [] k = "privateIpv4" -> s.ipv4
             [] OTHER -> serialise_y(s)]

\* dict.get(k, d)
Get(x, k, d) == IF k \in DOMAIN x THEN x[k] ELSE d

deserialise_swapped(x) ==
    LET y == x["virtualbox"] IN
    [vm_id |-> Get(x, "vmId", None),
     ipv4 |-> Get(x, "privateIpv4", None),
     disk |-> Get(y, "disk", None),
     disk_attached |-> Get(y, "diskAttached", FALSE),
     client_private_key |-> Get(y, "clientPublicKey", None),
     client_public_key |-> Get(y, "clientPublicKey", None),
     started |-> Get(y, "started", FALSE)]

\* VirtualBoxState.deserialise
deserialise(x) ==
    LET y == x["virtualbox"] IN
    [vm_id |-> Get(x, "vmId", None),
     ipv4 |-> Get(x, "privateIpv4", None),
     disk |-> Get(y, "disk", None),
     disk_attached |-> Get(y, "diskAttached", FALSE),
     client_private_key |-> Get(y, "clientPrivateKey", None),
     client_public_key |-> Get(y, "clientPublicKey", None),
     started |-> Get(y, "started", FALSE)]

\* MachineState.write(): the state file holds serialise() of the object.
write(s) == serialise(s)

\* ---------------------------------------------------------------- variables

VARIABLES
    mem,        \* the VirtualBoxState object's fields
    stored,     \* the mapping in the state file
    vm,         \* the hypervisor: registered, state, ip (guest fact), disk, ctl, attached
    pc,         \* position in the running operation, "idle" between operations
    call,       \* the running (or last) operation: op, check; after: the calls
                \* that returned right before it, of create() then stop()
    log,        \* what the running (or last) operation did, in order
    polls,      \* sleeps of the polling loop in progress
    result,     \* how the last operation ended
    prev_ipv4,  \* start()'s local variable
    hist        \* the object and the file as the operation began; steady: the call
                \* follows a create() that returned, and the machine has been
                \* running and publishing the stored address ever since;
                \* undisturbed: the machine has not changed power state by
                \* itself since the operation began

vars == <<mem, stored, vm, pc, call, log, polls, result, prev_ipv4, hist>>

\* One entry of log: a command (or write, known_hosts, warn) and its outcome.
Log(c, r) == [c |-> c, r |-> r]

NoVm == [registered |-> FALSE, state |-> "poweroff", ip |-> None,
         disk |-> FALSE, ctl |-> FALSE, attached |-> FALSE]

\* Between operations nothing is remembered of the last one but its name
\* and result.
NoHist ==
    [mem |-> EmptyState, stored |-> write(EmptyState), steady |-> FALSE,
     undisturbed |-> FALSE]

Init ==
    /\ mem = EmptyState
    /\ stored = write(EmptyState)
    /\ vm = NoVm
    /\ pc = "idle"
    /\ call = [op |-> "none", check |-> FALSE, after |-> "none"]
    /\ log = <<>>
    /\ polls = 0
    /\ result = "none"
    /\ prev_ipv4 = None
    /\ hist = NoHist

\* ------------------------------------------------------------------ helpers

\* One step of an operation: the object, the file, the hypervisor, the next
\* position, the entries added to log, and the result so far.
Do(m, st, v, p, es, res) ==
    /\ mem' = m
    /\ stored' = st
    /\ vm' = v
    /\ pc' = p
    /\ log' = log \o es
    /\ result' = res
    /\ polls' = 0
    /\ UNCHANGED <<call, prev_ipv4, hist>>

\* A guard that is already satisfied: go on.
Skip(p) == Do(mem, stored, vm, p, <<>>, result)

\* 'raise Exception(...)': the operation ends, nothing else changes.
Raise(v, es) == Do(mem, stored, v, "done", es, "failed")

\* The process dies after a command and before the write() that follows it.
Die(v, es) == Do(deserialise(stored), stored, v, "done", es, "interrupted")

\* Normal return.
Return(m, st, v, es) == Do(m, st, v, "done", es, "ok")

\* Exit codes a VBoxManage command on the machine can give: it fails when the
\* machine is not registered, and may fail otherwise.
Outcomes == IF vm.registered THEN {"ok", "fail"} ELSE {"fail"}

\* The same, with the process dying right after a success.
OutcomesOrDeath == IF vm.registered THEN {"ok", "fail", "crash"} ELSE {"fail"}

\* What _get_vm_state() returns: the VMState, or "fail" for its exceptions.
Reports == IF vm.registered THEN {vm.state, "fail"} ELSE {"fail"}

\* --------------------------------------------------------------- operations

\* An operation is called on the idle object.
Begin(o, c) ==
    /\ pc = "idle"
    /\ call' = [op |-> o, check |-> c,
                after |-> CASE result = "ok" /\ call.op = "create" -> "create"
                            [] result = "ok" /\ call.op = "stop" /\ call.after = "create"
                                 -> "create,stop"
                            [] OTHER -> "none"]
    /\ hist' = [mem |-> mem, stored |-> stored, undisturbed |-> TRUE,
                steady |-> /\ call.op = "create" /\ result = "ok"
                           /\ vm.registered /\ vm.state = "running"
                           /\ vm.ip = mem.ipv4]
    /\ log' = <<>>
    /\ polls' = 0
    /\ result' = "running"
    /\ prev_ipv4' = None
    /\ UNCHANGED <<mem, stored, vm>>

\* create(defn, check)
BeginCreate ==
    /\ \E c \in BOOLEAN : Begin("create", c)
    /\ pc' = "c_vm"

\* 'if not self._vm_id:'
NeedsVm == ~Truthy(mem.vm_id)

\* create, step 1: createvm, set _vm_id, write.
CreateVM ==
    /\ pc = "c_vm"
    /\ IF ~NeedsVm
         THEN Skip("c_disk")
         ELSE \E out \in {"ok", "fail", "crash"} :
                LET made == [NoVm EXCEPT !.registered = TRUE]
                    m == [mem EXCEPT !.vm_id = VmId]
                IN CASE out = "fail" -> Raise(vm, <<Log("createvm", "fail")>>)
                     [] out = "crash" -> Die(made, <<Log("createvm", "ok")>>)
                     [] OTHER -> Do(m, write(m), made, "c_disk",
                                    <<Log("createvm", "ok"), Log("write", "ok")>>, result)

NeedsDisk_always == TRUE

NeedsDisk_inverted == Truthy(mem.disk)

\* 'if not self._disk:'
NeedsDisk == ~Truthy(mem.disk)

\* create, step 2: find the VM's directory (made by createvm), resolve the
\* base image, clonehd, set _disk, write.
CreateDisk ==
    /\ pc = "c_disk"
    /\ IF ~NeedsDisk
         THEN Skip("c_attach")
         ELSE \E base_image \in BaseImages :
              \E out \in (IF ~vm.registered THEN {"nodir"}
                          ELSE {"ok", "fail", "crash"}
                               \cup (IF base_image = "drv" THEN {"buildfail"} ELSE {})) :
                LET built == IF base_image = "drv"
                               THEN <<Log("nix-build", "ok")>> ELSE <<>>
                    cloned == [vm EXCEPT !.disk = TRUE]
                    m == [mem EXCEPT !.disk = DiskPath]
                IN CASE out = "nodir" -> Raise(vm, <<>>)
                     [] out = "buildfail" -> Raise(vm, <<Log("nix-build", "fail")>>)
                     [] out = "fail" -> Raise(vm, built \o <<Log("clonehd", "fail")>>)
                     [] out = "crash" -> Die(cloned, built \o <<Log("clonehd", "ok")>>)
                     [] OTHER -> Do(m, write(m), cloned, "c_attach",
                                    built \o <<Log("clonehd", "ok"), Log("write", "ok")>>,
                                    result)

\* 'if not self._disk_attached:'
NeedsAttach == ~mem.disk_attached

\* create, step 3: storagectl, storageattach, set _disk_attached, write.
CreateAttach ==
    /\ pc = "c_attach"
    /\ IF ~NeedsAttach
         THEN Skip("c_check")
         ELSE \E out \in (IF vm.registered
                            THEN {"ok", "ctlfail", "ctlcrash", "attfail", "crash"}
                            ELSE {"ctlfail"}) :
                LET ctl == [vm EXCEPT !.ctl = TRUE]
                    att == [vm EXCEPT !.ctl = TRUE, !.attached = TRUE]
                    m == [mem EXCEPT !.disk_attached = TRUE]
                IN CASE out = "ctlfail" -> Raise(vm, <<Log("storagectl", "fail")>>)
                     [] out = "ctlcrash" -> Die(ctl, <<Log("storagectl", "ok")>>)
                     [] out = "attfail" ->
                          Raise(ctl, <<Log("storagectl", "ok"), Log("storageattach", "fail")>>)
                     [] out = "crash" ->
                          Die(att, <<Log("storagectl", "ok"), Log("storageattach", "ok")>>)
                     [] OTHER ->
                          Do(m, write(m), att, "c_check",
                             <<Log("storagectl", "ok"), Log("storageattach", "ok"),
                               Log("write", "ok")>>, result)

\* create, step 4: 'if check:' running sets _started in the object only;
\* anything else resets it and writes.
CreateCheck ==
    /\ pc = "c_check"
    /\ IF ~call.check
         THEN Skip("c_keys")
         ELSE \E r \in Reports :
                LET up == [mem EXCEPT !.started = TRUE]
                    down == [mem EXCEPT !.started = FALSE]
                IN CASE r = "fail" -> Raise(vm, <<Log("showvminfo", "fail")>>)
                     [] r = "running" ->
                          Do(up, stored, vm, "c_keys", <<Log("showvminfo", r)>>, result)
                     [] OTHER ->
                          Do(down, write(down), vm, "c_keys",
                             <<Log("showvminfo", r), Log("write", "ok")>>, result)

\* 'if not self._client_private_key:'
NeedsKeys == ~Truthy(mem.client_private_key)

\* create, step 5: a new key pair, in the object only.
CreateKeys ==
    /\ pc = "c_keys"
    /\ IF ~NeedsKeys
         THEN Skip("c_modify")
         ELSE Do([mem EXCEPT !.client_private_key = PrivKey, !.client_public_key = PubKey],
                 stored, vm, "c_modify", <<Log("keygen", "ok")>>, result)

NeedsStart_never == FALSE

\* 'if not self._started:'
NeedsStart == ~mem.started

CreateModify_unordered ==
    /\ pc = "c_modify"
    /\ IF ~NeedsStart
         THEN Skip("c_addr")
         ELSE \E out \in Outcomes :
                IF out = "fail"
                  THEN Raise(vm, <<Log("modifyvm", "fail")>>)
                  ELSE Do(mem, stored, vm, "s_key", <<Log("modifyvm", "ok")>>, result)

\* create, step 6: modifyvm, then _start().
CreateModify ==
    /\ pc = "c_modify"
    /\ IF ~NeedsStart
         THEN Skip("c_addr")
         ELSE \E out \in Outcomes :
                IF out = "fail"
                  THEN Raise(vm, <<Log("modifyvm", "fail")>>)
                  ELSE Do(mem, stored, vm, "s_clear", <<Log("modifyvm", "ok")>>, result)

StartClear_unchecked ==
    /\ pc = "s_clear"
    /\ \E out \in Outcomes :
         Do(mem, stored, IF out = "ok" THEN [vm EXCEPT !.ip = None] ELSE vm, "s_key",
            <<Log("clearip", out)>>, result)

\* _start(), first command: set the address guest property to ''.
StartClear ==
    /\ pc = "s_clear"
    /\ \E out \in Outcomes :
         IF out = "fail"
           THEN Raise(vm, <<Log("clearip", "fail")>>)
           ELSE Do(mem, stored, [vm EXCEPT !.ip = None], "s_key",
                   <<Log("clearip", "ok")>>, result)

\* _start(), second command: publish the public key.  A None argument makes
\* subprocess.call raise before anything runs.
StartKey ==
    /\ pc = "s_key"
    /\ IF ~Truthy(mem.client_public_key)
         THEN Raise(vm, <<>>)
         ELSE \E out \in Outcomes :
                IF out = "fail"
                  THEN Raise(vm, <<Log("setkey", "fail")>>)
                  ELSE Do(mem, stored, vm, "s_vm", <<Log("setkey", "ok")>>, result)

StartVM_unrecorded ==
    /\ pc = "s_vm"
    /\ \E out \in OutcomesOrDeath :
         LET up == [vm EXCEPT !.state = "running"]
         IN CASE out = "fail" -> Raise(vm, <<Log("startvm", "fail")>>)
              [] out = "crash" -> Die(up, <<Log("startvm", "ok")>>)
              [] OTHER -> Do(mem, stored, up,
                             IF call.op = "create" THEN "c_addr" ELSE "w_ip",
                             <<Log("startvm", "ok")>>, result)

\* _start(), third command: startvm, set _started, write.
StartVM ==
    /\ pc = "s_vm"
    /\ \E out \in OutcomesOrDeath :
         LET up == [vm EXCEPT !.state = "running"]
             m == [mem EXCEPT !.started = TRUE]
         IN CASE out = "fail" -> Raise(vm, <<Log("startvm", "fail")>>)
              [] out = "crash" -> Die(up, <<Log("startvm", "ok")>>)
              [] OTHER -> Do(m, write(m), up,
                             IF call.op = "create" THEN "c_addr" ELSE "w_ip",
                             <<Log("startvm", "ok"), Log("write", "ok")>>, result)

NeedsAddr_unchecked == ~Truthy(mem.ipv4)

\* 'if not self._ipv4 or check:'
NeedsAddr == ~Truthy(mem.ipv4) \/ call.check

\* create, step 7: _wait_for_ip().
CreateAddr ==
    /\ pc = "c_addr"
    /\ IF NeedsAddr
         THEN Skip("w_ip")
         ELSE Return(mem, stored, vm, <<>>)

\* What 'guestproperty get' gives: an error, "No value set!", or "Value: a".
IpReads ==
    IF vm.registered THEN {IF vm.ip = None THEN "absent" ELSE vm.ip, "fail"} ELSE {"fail"}

RemovedHost_previous(old, new) == old

\* The address whose known_hosts entry _wait_for_ip() removes, given the
\* address the object held before the poll and the one it holds after.
RemovedHost(old, new) == new

WaitForIp_strict ==
    /\ pc = "w_ip"
    /\ \E r \in IpReads, dies \in BOOLEAN :
         LET m == [mem EXCEPT !.ipv4 = r]
         IN CASE r = "fail" -> ~dies /\ Raise(vm, <<Log("getip", "fail")>>)
              [] r = "absent" -> ~dies /\ Raise(vm, <<Log("getip", "absent")>>)
              [] dies -> Die(vm, <<Log("getip", r)>>)
              [] OTHER ->
                   Do(m, write(m), vm, IF call.op = "create" THEN "done" ELSE "st_warn",
                      <<Log("getip", r), Log("known_hosts", RemovedHost(mem.ipv4, m.ipv4)),
                        Log("write", "ok")>>,
                      IF call.op = "create" THEN "ok" ELSE result)

\* _wait_for_ip(): one pass of the loop; on "Value: a" set _ipv4, remove the
\* known_hosts entry, write, and return to the caller.
WaitForIp ==
    /\ pc = "w_ip"
    /\ \E r \in IpReads, dies \in BOOLEAN :
         LET m == [mem EXCEPT !.ipv4 = r]
         IN CASE r = "fail" -> ~dies /\ Raise(vm, <<Log("getip", "fail")>>)
              [] r = "absent" ->
                   /\ ~dies
                   /\ polls < MaxPolls
                   /\ polls' = polls + 1
                   /\ log' = Append(log, Log("getip", "absent"))
                   /\ UNCHANGED <<mem, stored, vm, pc, call, result, prev_ipv4, hist>>
              [] dies -> Die(vm, <<Log("getip", r)>>)
              [] OTHER ->
                   Do(m, write(m), vm, IF call.op = "create" THEN "done" ELSE "st_warn",
                      <<Log("getip", r), Log("known_hosts", RemovedHost(mem.ipv4, m.ipv4)),
                        Log("write", "ok")>>,
                      IF call.op = "create" THEN "ok" ELSE result)

\* destroy()
BeginDestroy ==
    /\ Begin("destroy", FALSE)
    /\ pc' = "d_query"

\* destroy, first query: poweroff when running; its exit code is ignored.
DestroyQuery ==
    /\ pc = "d_query"
    /\ IF ~Truthy(mem.vm_id)
         THEN Raise(vm, <<>>)
         ELSE \E r \in Reports, out \in Outcomes, s \in {"stopping", "poweroff"} :
                CASE r = "fail" -> Raise(vm, <<Log("showvminfo", "fail")>>)
                  [] r = "running" ->
                       Do(mem, stored, IF out = "ok" THEN [vm EXCEPT !.state = s] ELSE vm,
                          "d_poll", <<Log("showvminfo", r), Log("poweroff", out)>>, result)
                  [] OTHER -> Do(mem, stored, vm, "d_poll", <<Log("showvminfo", r)>>, result)

DestroyTerminal_early == {"poweroff", "aborted", "stopping"}

\* States that end destroy()'s loop.
DestroyTerminal == {"poweroff", "aborted"}

\* destroy, 'while self._get_vm_state() not in [...]: time.sleep(1)'
DestroyPoll ==
    /\ pc = "d_poll"
    /\ \E r \in Reports :
         CASE r = "fail" -> Raise(vm, <<Log("showvminfo", "fail")>>)
           [] r \in DestroyTerminal ->
                Do(mem, stored, vm, "d_delete", <<Log("showvminfo", r)>>, result)
           [] OTHER ->
                /\ polls < MaxPolls
                /\ polls' = polls + 1
                /\ log' = Append(log, Log("showvminfo", r))
                /\ UNCHANGED <<mem, stored, vm, pc, call, result, prev_ipv4, hist>>

\* destroy, unregistervm --delete: the object's fields are left as they are.
DestroyDelete ==
    /\ pc = "d_delete"
    /\ \E out \in Outcomes :
         IF out = "fail"
           THEN Raise(vm, <<Log("unregistervm", "fail")>>)
           ELSE Return(mem, stored, NoVm, <<Log("unregistervm", "ok")>>)

\* stop()
BeginStop ==
    /\ Begin("stop", FALSE)
    /\ pc' = "p_query"

StopQuery_unguarded ==
    /\ pc = "p_query"
    /\ IF ~Truthy(mem.vm_id)
         THEN Raise(vm, <<>>)
         ELSE \E r \in Reports, out \in {"ok", "fail"} :
                CASE r = "fail" -> Raise(vm, <<Log("showvminfo", "fail")>>)
                  [] out = "fail" ->
                       Raise(vm, <<Log("showvminfo", r), Log("ssh-poweroff", "fail")>>)
                  [] OTHER ->
                       Do(mem, stored, [vm EXCEPT !.state = "stopping"], "p_poll",
                          <<Log("showvminfo", r), Log("ssh-poweroff", "ok")>>, result)

\* stop, first query: return unless running, else ask the guest to power off.
StopQuery ==
    /\ pc = "p_query"
    /\ IF ~Truthy(mem.vm_id)
         THEN Raise(vm, <<>>)
         ELSE \E r \in Reports, out \in {"ok", "fail"} :
                CASE r = "fail" -> Raise(vm, <<Log("showvminfo", "fail")>>)
                  [] r # "running" -> Return(mem, stored, vm, <<Log("showvminfo", r)>>)
                  [] out = "fail" ->
                       Raise(vm, <<Log("showvminfo", r), Log("ssh-poweroff", "fail")>>)
                  [] OTHER ->
                       Do(mem, stored, [vm EXCEPT !.state = "stopping"], "p_poll",
                          <<Log("showvminfo", r), Log("ssh-poweroff", "ok")>>, result)

\* States that end stop()'s loop.
StopTerminal == {"poweroff"}

\* stop, 'while self._get_vm_state() not in ['poweroff']', then _started =
\* False and write.
StopPoll ==
    /\ pc = "p_poll"
    /\ \E r \in Reports :
         LET m == [mem EXCEPT !.started = FALSE]
         IN CASE r = "fail" -> Raise(vm, <<Log("showvminfo", "fail")>>)
              [] r \in StopTerminal ->
                   Return(m, write(m), vm, <<Log("showvminfo", r), Log("write", "ok")>>)
              [] OTHER ->
                   /\ polls < MaxPolls
                   /\ polls' = polls + 1
                   /\ log' = Append(log, Log("showvminfo", r))
                   /\ UNCHANGED <<mem, stored, vm, pc, call, result, prev_ipv4, hist>>

\* start()
BeginStart ==
    /\ Begin("start", FALSE)
    /\ pc' = "st_query"

StartQuery_restarts ==
    /\ pc = "st_query"
    /\ IF ~Truthy(mem.vm_id)
         THEN Raise(vm, <<>>) /\ prev_ipv4' = prev_ipv4
         ELSE \E r \in Reports :
                /\ log' = Append(log, Log("showvminfo", r))
                /\ pc' = IF r = "fail" THEN "done" ELSE "s_clear"
                /\ result' = IF r = "fail" THEN "failed" ELSE result
                /\ prev_ipv4' = IF r = "fail" THEN prev_ipv4 ELSE mem.ipv4
                /\ UNCHANGED <<mem, stored, vm, call, polls, hist>>

\* start, first query: return when running, else remember the address and
\* go through _start() and _wait_for_ip().
StartQuery ==
    /\ pc = "st_query"
    /\ IF ~Truthy(mem.vm_id)
         THEN Raise(vm, <<>>) /\ prev_ipv4' = prev_ipv4
         ELSE \E r \in Reports :
                /\ log' = Append(log, Log("showvminfo", r))
                /\ pc' = IF r \in {"fail", "running"} THEN "done" ELSE "s_clear"
                /\ result' = CASE r = "fail" -> "failed" [] r = "running" -> "ok"
                               [] OTHER -> result
                /\ prev_ipv4' = IF r \in {"fail", "running"} THEN prev_ipv4 ELSE mem.ipv4
                /\ UNCHANGED <<mem, stored, vm, call, polls, hist>>

AddressChanged_stored == Get(stored, "privateIpv4", None) # mem.ipv4

\* 'if prev_ipv4 != self._ipv4:'
AddressChanged == prev_ipv4 # mem.ipv4

\* start, last step: self.warn(...) when the address changed.
StartWarn ==
    /\ pc = "st_warn"
    /\ Return(mem, stored, vm, IF AddressChanged THEN <<Log("warn", "ok")>> ELSE <<>>)

\* -------------------------------------------------------------- environment

\* The guest publishes its address, or a different one, while it runs.
GuestPublishes ==
    /\ pc # "done"
    /\ vm.registered /\ vm.state = "running"
    /\ \E a \in Addrs : a # vm.ip /\ vm' = [vm EXCEPT !.ip = a]
    /\ hist' = [hist EXCEPT !.steady = FALSE]
    /\ UNCHANGED <<mem, stored, pc, call, log, polls, result, prev_ipv4>>

\* The machine goes down by itself, or finishes stopping.
PowerChanges ==
    /\ pc # "done"
    /\ vm.registered
    /\ \E s \in VMStates :
         /\ \/ vm.state = "running" /\ s # "running"
            \/ vm.state = "stopping" /\ s \in {"poweroff", "aborted"}
         /\ vm' = [vm EXCEPT !.state = s]
    /\ hist' = [hist EXCEPT !.steady = FALSE, !.undisturbed = FALSE]
    /\ UNCHANGED <<mem, stored, pc, call, log, polls, result, prev_ipv4>>

\* The process is killed in the middle of an operation.
Interrupt ==
    /\ pc \notin {"idle", "done"}
    /\ Die(vm, <<>>)

\* The operation has returned (or raised, or the process is gone): control
\* is back with the caller.
Returned ==
    /\ pc = "done"
    /\ pc' = "idle"
    /\ log' = <<>>
    /\ hist' = NoHist
    /\ prev_ipv4' = None
    /\ UNCHANGED <<mem, stored, vm, call, polls, result>>

\* A new process loads the state file into a new object.
Reload ==
    /\ pc = "idle"
    /\ mem # deserialise(stored)
    /\ mem' = deserialise(stored)
    /\ UNCHANGED <<stored, vm, pc, call, log, polls, result, prev_ipv4, hist>>

Next ==
    \/ BeginCreate
    \/ CreateVM
    \/ CreateDisk
    \/ CreateAttach
    \/ CreateCheck
    \/ CreateKeys
    \/ CreateModify
    \/ StartClear
    \/ StartKey
    \/ StartVM
    \/ CreateAddr
    \/ WaitForIp
    \/ BeginDestroy
    \/ DestroyQuery
    \/ DestroyPoll
    \/ DestroyDelete
    \/ BeginStop
    \/ StopQuery
    \/ StopPoll
    \/ BeginStart
    \/ StartQuery
    \/ StartWarn
    \/ GuestPublishes
    \/ PowerChanges
    \/ Interrupt
    \/ Returned
    \/ Reload

\* The polling loop of _wait_for_ip() keeps running: 'while True: ...
\* time.sleep(1)'.
SpecLive == Init /\ [][Next]_vars /\ WF_vars(WaitForIp)

Spec == Init /\ [][Next]_vars

\* ------------------------------------------------- persistence round trip

\* Every record: each optional field unset or set, both booleans free.
AllStates ==
    [vm_id : {None, VmId}, ipv4 : {None} \cup Addrs, disk : {None, DiskPath},
     disk_attached : BOOLEAN, started : BOOLEAN,
     client_private_key : {None, PrivKey}, client_public_key : {None, PubKey}]

InitRT ==
    /\ mem \in AllStates
    /\ stored = write(EmptyState)
    /\ vm = NoVm
    /\ pc = "rt_new"
    /\ call = [op |-> "none", check |-> FALSE, after |-> "none"]
    /\ log = <<>>
    /\ polls = 0
    /\ result = "none"
    /\ prev_ipv4 = None
    /\ hist = NoHist

\* write(): the record goes to the state file.
SaveRT ==
    /\ pc = "rt_new"
    /\ stored' = write(mem)
    /\ hist' = [hist EXCEPT !.mem = mem]
    /\ pc' = "rt_saved"
    /\ UNCHANGED <<mem, vm, call, log, polls, result, prev_ipv4>>

\* A state file that lacks 'diskAttached', 'started' or both.
DropRT ==
    /\ pc = "rt_saved"
    /\ \E d \in (SUBSET {"diskAttached", "started"}) \ {{}} :
         LET y == stored["virtualbox"]
         IN stored' = [stored EXCEPT !["virtualbox"] = [k \in (DOMAIN y) \ d |-> y[k]]]
    /\ pc' = "rt_partial"
    /\ UNCHANGED <<mem, vm, call, log, polls, result, prev_ipv4, hist>>

\* deserialise(): a new object is filled from the state file.
LoadRT ==
    /\ pc \in {"rt_saved", "rt_partial"}
    /\ mem' = deserialise(stored)
    /\ pc' = IF pc = "rt_saved" THEN "rt_loaded" ELSE "rt_loaded_partial"
    /\ UNCHANGED <<stored, vm, call, log, polls, result, prev_ipv4, hist>>

NextRT ==
    \/ SaveRT
    \/ DropRT
    \/ LoadRT

SpecRT == InitRT /\ [][NextRT]_vars

\* ------------------------------------------------------------------ claims

\* Commands that change the hypervisor.
Mutating ==
    {"createvm", "clonehd", "storagectl", "storageattach", "clearip", "setkey",
     "modifyvm", "startvm", "poweroff", "unregistervm"}

\* The one-shot commands whose failure raises.
OneShot == Mutating \ {"poweroff"}

Issued(c) == \E i \in DOMAIN log : log[i].c = c

\* The file's content as a record.
Persisted == deserialise(stored)

\* The address in the file when the operation began.
OldAddress == Get(hist.stored, "privateIpv4", None)

\* identity, disk, attachment, keys and address set
Complete(s) ==
    /\ Truthy(s.vm_id) /\ Truthy(s.disk) /\ s.disk_attached /\ Truthy(s.ipv4)
    /\ Truthy(s.client_private_key) /\ Truthy(s.client_public_key)

\* C1 (as claimed): a create() that follows a create() that returned, with the
\* machine running and publishing the stored address throughout, issues no
\* mutating command and leaves the state file as it was.
C1_Idempotent ==
    (call.op = "create" /\ hist.steady)
      => /\ \A i \in DOMAIN log : log[i].c \notin Mutating
         /\ stored = hist.stored

\* C2: create() issues createvm only if _vm_id was unset when it began, clonehd
\* only if _disk was unset, storagectl/storageattach only if _disk_attached was
\* false; begun with _vm_id and _disk set and _disk_attached false, once past
\* step 3 it has issued the attach commands and neither createvm nor clonehd.
C2_Resumes ==
    call.op = "create"
      => /\ \A i \in DOMAIN log :
              /\ log[i].c = "createvm" => ~Truthy(hist.mem.vm_id)
              /\ log[i].c = "clonehd" => ~Truthy(hist.mem.disk)
              /\ log[i].c \in {"storagectl", "storageattach"} => ~hist.mem.disk_attached
         /\ ( /\ Truthy(hist.mem.vm_id) /\ Truthy(hist.mem.disk) /\ ~hist.mem.disk_attached
              /\ \/ pc \in {"c_check", "c_keys", "c_modify", "s_clear", "s_key", "s_vm",
                            "c_addr", "w_ip"}
                 \/ pc = "done" /\ result \in {"ok", "failed"} )
              => /\ Issued("storagectl")
                 /\ ~Issued("createvm") /\ ~Issued("clonehd")
                 /\ result = "ok" => Issued("storageattach")

C2_Witness ==
    /\ call.op = "create" /\ pc = "done" /\ result = "ok"
    /\ Truthy(hist.mem.vm_id) /\ Truthy(hist.mem.disk) /\ ~hist.mem.disk_attached
    /\ Issued("storageattach")

\* The case of C3: create(check=true) on a complete record, loaded as stored,
\* with started = true, whose first query reports a state other than running.
C3_Case ==
    /\ call.op = "create" /\ call.check
    /\ hist.mem = deserialise(hist.stored)
    /\ Complete(hist.mem) /\ hist.mem.started
    /\ Len(log) >= 1 /\ log[1].c = "showvminfo" /\ log[1].r \notin {"running", "fail"}

\* C3: in that case started = false is written before anything else is done
\* and is what the file holds until startvm has succeeded; the address is
\* polled only after startvm succeeded; and a create() that returns leaves
\* started = true and the address it read last in the file.
C3_Revalidates ==
    C3_Case
      => /\ Len(log) >= 2 /\ log[2].c = "write"
         /\ pc \in {"c_keys", "c_modify", "s_clear", "s_key", "s_vm"} => ~Persisted.started
         /\ \A i \in DOMAIN log :
              log[i].c = "getip" => \E j \in 1..(i - 1) : log[j] = Log("startvm", "ok")
         /\ (pc = "done" /\ result = "ok")
              => /\ Persisted.started
                 /\ \E i \in DOMAIN log :
                      /\ log[i].c = "getip" /\ log[i].r \in Addrs
                      /\ Persisted.ipv4 = log[i].r
                      /\ \A j \in DOMAIN log : log[j].c = "getip" => j <= i

C3_Witness ==
    /\ C3_Case /\ pc = "done" /\ result = "ok"
    /\ Persisted.ipv4 # OldAddress

\* Reports of _get_vm_state() among the first n entries of log.
ReportsBefore(n) == {j \in 1..(n - 1) : log[j].c = "showvminfo"}

\* C4: in destroy(), unregistervm comes only after a query of this destroy()
\* reported poweroff or aborted; poweroff is issued at most once, exactly when
\* the first query reports running, and right after that query; when the
\* reports are running, stopping, poweroff, unregistervm comes after the third.
C4_DestroyConverges ==
    call.op = "destroy"
      => /\ \A i \in DOMAIN log :
              log[i].c = "unregistervm"
                => /\ \E j \in ReportsBefore(i) : log[j].r \in {"poweroff", "aborted"}
                   /\ \A j \in ReportsBefore(i) :
                        log[j].r \in {"running", "stopping"} => j < i - 1
                   /\ Cardinality(ReportsBefore(i)) >= 2
         /\ \A i \in DOMAIN log : log[i].c = "poweroff" => i = 2 /\ log[1].r = "running"
         /\ (Len(log) >= 1 /\ log[1] = Log("showvminfo", "running") /\ pc # "d_query")
              => Len(log) >= 2 /\ log[2].c = "poweroff"
         /\ ( /\ Len(log) >= 4 /\ log[1].r = "running" /\ log[3] = Log("showvminfo", "stopping")
              /\ log[4] = Log("showvminfo", "poweroff") )
              => \A i \in DOMAIN log : log[i].c = "unregistervm" => i = 5

C4_Witness ==
    /\ call.op = "destroy" /\ pc = "done" /\ result = "ok"
    /\ log = <<Log("showvminfo", "running"), Log("poweroff", "ok"),
               Log("showvminfo", "stopping"), Log("showvminfo", "poweroff"),
               Log("unregistervm", "ok")>>

\* C5: a record written and read back is the same record on every field; an
\* unset optional field has no key in the mapping; a mapping without
\* 'diskAttached' or 'started' gives false for it and every other field as
\* written.
C5_RoundTrip ==
    /\ pc = "rt_saved"
         => LET y == stored["virtualbox"]
            IN /\ ("vmId" \in DOMAIN stored) <=> (hist.mem.vm_id # None)
               /\ ("privateIpv4" \in DOMAIN stored) <=> (hist.mem.ipv4 # None)
               /\ ("disk" \in DOMAIN y) <=> (hist.mem.disk # None)
               /\ ("clientPrivateKey" \in DOMAIN y) <=> (hist.mem.client_private_key # None)
               /\ ("clientPublicKey" \in DOMAIN y) <=> (hist.mem.client_public_key # None)
    /\ pc = "rt_loaded" => mem = hist.mem
    /\ pc = "rt_loaded_partial"
         => LET y == stored["virtualbox"]
            IN mem = [hist.mem EXCEPT
                        !.disk_attached = IF "diskAttached" \in DOMAIN y THEN @ ELSE FALSE,
                        !.started = IF "started" \in DOMAIN y THEN @ ELSE FALSE]

C5_Witness ==
    /\ pc = "rt_loaded"
    /\ mem.vm_id = None /\ mem.disk = DiskPath /\ mem.ipv4 = "a2"
    /\ mem.client_private_key = None /\ mem.client_public_key = PubKey
    /\ mem.started /\ ~mem.disk_attached

\* The case of C6: start() found the machine not running and returned.
C6_Case ==
    /\ call.op = "start" /\ pc = "done" /\ result = "ok"
    /\ Len(log) >= 1 /\ log[1].r # "running"

\* C6: a start() that found the machine not running and returned has written
\* the address it read, and has warned exactly when that address is not the
\* one the file held before the call; a warning is the last thing start() does.
C6_WarnsOnChange ==
    /\ C6_Case
         => /\ Persisted.ipv4 \in Addrs
            /\ \E i \in DOMAIN log : log[i] = Log("getip", Persisted.ipv4)
            /\ Issued("warn") <=> (Persisted.ipv4 # OldAddress)
    /\ Issued("warn") => call.op = "start" /\ pc = "done" /\ result = "ok"

C6_Witness ==
    /\ C6_Case /\ Issued("warn")
    /\ OldAddress \in Addrs

\* The case of C7: a poll replaced a stored address by a different one, at
\* entry i of log.
C7_Replaced(i) ==
    /\ call.op \in {"create", "start"}
    /\ i > 1 /\ log[i].c = "known_hosts"
    /\ log[i - 1].c = "getip"
    /\ OldAddress \in Addrs /\ log[i - 1].r # OldAddress

C8_WriteThrough ==
    (call.op = "create" /\ pc \in {"s_clear", "s_key", "s_vm", "w_ip"})
      => stored = write(mem)

\* C9: a failed one-shot command is the last thing its operation does: the
\* operation has ended as failed, nothing was issued or written after it, and
\* with no write before it the file is as it was when the operation began.
C9_FatalFailure ==
    \A i \in DOMAIN log :
      (log[i].c \in OneShot /\ log[i].r = "fail")
        => /\ i = Len(log)
           /\ pc = "done" /\ result = "failed"
           /\ (\A j \in DOMAIN log : log[j].c # "write") => stored = hist.stored

C9_Witness ==
    /\ pc = "done" /\ result = "failed" /\ call.op = "start"
    /\ Len(log) = 4 /\ log[4] = Log("startvm", "fail")
    /\ stored = hist.stored

\* C10: in the state file, diskAttached implies a disk path and started
\* implies a machine id, whatever operations ran and however they ended.
C10_StateInvariants ==
    /\ Persisted.disk_attached => Truthy(Persisted.disk)
    /\ Persisted.started => Truthy(Persisted.vm_id)

C10_Witness ==
    /\ pc = "done" /\ result = "interrupted" /\ call.op = "destroy"
    /\ Persisted.started /\ Persisted.disk_attached

\* C11 (as claimed): when destroy() has returned, the record's identity
\* fields are cleared, in the object and in the file, so that the next
\* create() starts at step 1.
C11_DestroyResets ==
    (call.op = "destroy" /\ pc = "done" /\ result = "ok")
      => /\ ~Truthy(mem.vm_id) /\ ~Truthy(mem.disk) /\ ~mem.disk_attached
         /\ ~mem.started /\ ~Truthy(mem.ipv4)
         /\ Persisted = mem
         /\ NeedsVm

\* What the hypervisor already holds of the machine: the registration made by
\* createvm, the image made by clonehd, the controller made by storagectl.
AlreadyDone(c) ==
    CASE c = "createvm" -> vm.registered
      [] c = "clonehd" -> vm.disk
      [] OTHER -> vm.ctl

\* The entries a step adds to log.
Added == {i \in DOMAIN log' : i > Len(log)}

\* C12 (as claimed): create() never issues createvm, clonehd or storagectl
\* again once that command has succeeded for the machine.
C12_NoReissue ==
    [][\A c \in {"createvm", "clonehd", "storagectl"} :
         (pc \in {"c_vm", "c_disk", "c_attach"} /\ AlreadyDone(c))
           => \A i \in Added : log'[i].c # c]_vars

\* start() has returned after a create() and then a stop() that returned.
C13_Case ==
    /\ call.op = "start" /\ call.after = "create,stop"
    /\ pc = "done" /\ result = "ok"

\* C13: when create(), then stop(), then start() have each returned, the file
\* has started = true and an address, and the machine reports running unless
\* it went down by itself during the start().
C13_StartAfterStop ==
    C13_Case
      => /\ Persisted.started
         /\ Persisted.ipv4 \in Addrs
         /\ hist.undisturbed
              => vm.registered /\ vm.state = "running" /\ "running" \in Reports

C13_Witness == C13_Case /\ hist.undisturbed /\ Issued("startvm")

\* C14: a start() whose query reports running issues nothing else, writes
\* nothing and changes no field; one whose query reports another state issues
\* clearip, setkey, startvm in that order, polls the address only after
\* startvm succeeded, has polled it when it returns, and never issues modifyvm.
C14_StartGuards ==
    (call.op = "start" /\ Len(log) >= 1)
      => /\ log[1].c = "showvminfo"
         /\ log[1].r = "running"
              => /\ Len(log) = 1 /\ pc = "done" /\ result = "ok"
                 /\ mem = hist.mem /\ stored = hist.stored
         /\ log[1].r \notin {"running", "fail"}
              => /\ \A i \in DOMAIN log :
                      log[i].c \notin {"modifyvm", "createvm", "clonehd", "storagectl",
                                       "storageattach", "unregistervm", "poweroff"}
                 /\ Len(log) >= 2 => log[2].c = "clearip"
                 /\ Len(log) >= 3 => log[3].c = "setkey"
                 /\ Len(log) >= 4 => log[4].c = "startvm"
                 /\ \A i \in DOMAIN log :
                      log[i].c = "getip" => i > 4 /\ log[4] = Log("startvm", "ok")
                 /\ (pc = "done" /\ result = "ok")
                      => \E i \in DOMAIN log : log[i].c = "getip" /\ log[i].r \in Addrs

C14_Witness ==
    /\ call.op = "start" /\ pc = "done" /\ result = "ok"
    /\ log[1].r # "running"
    /\ Issued("getip")

\* The record without its started field.
Unstarted(s) == [s EXCEPT !.started = FALSE]

ClaimedOrder == <<"clearip", "setkey", "modifyvm", "startvm">>
CodeOrder == <<"modifyvm", "clearip", "setkey", "startvm">>

\* create() issues the commands of the start step in the given order, issues
\* startvm only after the three others succeeded, and has started = true in
\* the file, once the step is entered, only after startvm succeeded.
StartStep(order) ==
    call.op = "create"
      => /\ \A i, j \in DOMAIN log : \A a, b \in DOMAIN order :
              (i < j /\ log[i].c = order[a] /\ log[j].c = order[b]) => a < b
         /\ \A j \in DOMAIN log :
              log[j].c = "startvm"
                => \A c \in {"modifyvm", "clearip", "setkey"} :
                     \E i \in 1..(j - 1) : log[i] = Log(c, "ok")
         /\ (Issued("modifyvm") /\ Persisted.started)
              => \E i \in DOMAIN log : log[i] = Log("startvm", "ok")

\* C16 (as claimed): the start step of create() issues clearip, setkey,
\* modifyvm, startvm in this order; started = true is written only after
\* startvm succeeded; startvm never comes before clearip.
C16_ClaimedOrder == StartStep(ClaimedOrder)

\* C16 (amended): the start step of create() issues modifyvm, clearip, setkey,
\* startvm in this order; started = true is written only after startvm
\* succeeded; startvm never comes before clearip.
C16_CodeOrder == StartStep(CodeOrder)

C16_Witness ==
    /\ call.op = "create" /\ pc = "done" /\ result = "ok"
    /\ Issued("modifyvm") /\ Issued("startvm") /\ Persisted.started

\* A new process has loaded the file.
Reloaded == mem' = deserialise(stored) /\ stored' = stored

\* C17: the address, in the object or in the file, changes only in a pass of
\* the address poll that read it, on a record whose started is true, or by
\* loading the file; started becomes true in the object only when startvm
\* succeeded, when a check reported running, or by loading the file.
C17_AddressProvenance ==
    [][/\ (mem'.ipv4 # mem.ipv4 \/ Persisted'.ipv4 # Persisted.ipv4)
            => \/ Reloaded
               \/ /\ pc = "w_ip" /\ mem.started
                  /\ mem'.ipv4 \in Addrs /\ Persisted'.ipv4 = mem'.ipv4
                  /\ \E i \in Added : log'[i] = Log("getip", mem'.ipv4)
       /\ pc' = "w_ip" => mem'.started
       /\ (mem'.started /\ ~mem.started)
            => \/ Reloaded
               \/ \E i \in Added : log'[i] = Log("startvm", "ok")
               \/ call.check /\ \E i \in Added : log'[i] = Log("showvminfo", "running")]_vars

C17_Witness ==
    /\ call.op = "create" /\ pc = "done" /\ result = "ok"
    /\ ~Truthy(hist.mem.ipv4) /\ Persisted.ipv4 \in Addrs
    /\ Issued("startvm") /\ Issued("getip")

\* C18: a pass of the address poll that finds no value changes nothing and
\* stays in the loop; the loop is left only with the address read, stored and
\* written, or with the get command failed and nothing changed, or by the
\* death of the process; and once the value is published the loop is left.
C18_PollTerminates ==
    /\ [][pc = "w_ip"
            => /\ (\E i \in Added : log'[i] = Log("getip", "absent"))
                    => /\ pc' = "w_ip" /\ result' = result
                       /\ mem' = mem /\ stored' = stored
               /\ pc' # "w_ip"
                    => \/ result' = "interrupted"
                       \/ /\ result' = "failed"
                          /\ \E i \in Added : log'[i] = Log("getip", "fail")
                          /\ mem' = mem /\ stored' = stored
                       \/ /\ result' # "failed"
                          /\ mem'.ipv4 \in Addrs /\ stored' = write(mem')
                          /\ \E i \in Added : log'[i] = Log("getip", mem'.ipv4)]_vars
    /\ (pc = "w_ip" /\ vm.ip # None) ~> (pc # "w_ip")

C18_Witness ==
    /\ pc = "done" /\ result = "ok"
    /\ \E i, j \in DOMAIN log :
         /\ i < j
         /\ log[i] = Log("getip", "absent")
         /\ log[j].c = "getip" /\ log[j].r \in Addrs /\ Persisted.ipv4 = log[j].r

\* C19 (as claimed): when create() or start() returns after a startvm of its
\* own, the address in the file was read from the guest after that startvm.
C19_FreshAddress ==
    (call.op \in {"create", "start"} /\ pc = "done" /\ result = "ok")
      => \A i \in DOMAIN log :
           log[i] = Log("startvm", "ok")
             => \E j \in DOMAIN log :
                  j > i /\ log[j] = Log("getip", Persisted.ipv4)

\* C20 (as claimed): a pass of the loop of destroy() or of stop() that reads
\* poweroff or aborted leaves the loop.
C20_LoopsExit ==
    (pc \in {"d_poll", "p_poll"} /\ polls > 0)
      => log[Len(log)].r \notin {"poweroff", "aborted"}

====
